---- MODULE Spec2Model ----
(***************************************************************************)
(* Change reconciliation of two property graphs (rapid-modeling-tools,     *)
(* graph_analysis): edge differencing and preference construction          *)
(* (Manager.get_pattern_graph_diff), the closeness score and the matching  *)
(* of unmatched edges (utils.match, utils.match_changes) and the           *)
(* classification of the matches into an ordered instruction list          *)
(* (Manager.graph_difference_to_json).                                     *)
(*                                                                         *)
(* An edge is its named edge triple <<source name, target name, edge       *)
(* attribute>>.  A Python list is a sequence; a Python dict is a sequence  *)
(* of entries in insertion order.  The enumeration order of a Python set   *)
(* is arbitrary, so every list built from a set is any permutation of it.  *)
(***************************************************************************)
EXTENDS Integers, Sequences, FiniteSets, TLC

VARIABLES
    pc,                 \* position in the reconciliation of one graph pair
    edge_set_one,       \* named edge triples of the original graph
    edge_set_two,       \* named edge triples of the changed graph
    eval_one_unmatched, \* list of the original edges not in the changed graph
    eval_two_unmatched, \* list of the changed edges not in the original graph
    eval_one_unmatch_pref, \* the preference dictionary: Added, Deleted, edge -> candidates
    pools,              \* match_changes: per proposer its pool and its accepted match
    confident_matches,  \* match_changes result [0]: the confident matches
    unstable_pairs,     \* match_changes result [1]: the unstable pairs
    seen_ids,           \* graph_difference_to_json: ids already handled
    create_node,        \* graph_difference_to_json: node create instructions
    node_dec,           \* graph_difference_to_json: node decorations
    edge_del,           \* graph_difference_to_json: edge delete instructions
    edge_add,           \* graph_difference_to_json: edge replace instructions
    node_renames,       \* graph_difference_to_json: node rename instructions
    change_list,        \* graph_difference_to_json: the returned list
    jpos,               \* graph_difference_to_json: index of the next key
    current,            \* match: the original edge
    clone,              \* match: the candidate edge
    match_val,          \* match: the score returned
    evaluators,         \* Manager.evaluators: the edge set of each evaluator
    pair_index,         \* get_pattern_graph_diff: index of the pair being compared
    evaluator_change_dict, \* get_pattern_graph_diff: the returned dictionary
    uml_id,             \* MDTranslator.uml_id: the id of each name, if any
    df_renames,         \* Evaluator.df_renames: the rows of the rename sheet
    rename_row,         \* sheets_to_dataframe: index of the next rename row
    uml_name,           \* get_uml_id: the name of the last call
    uml_return,         \* get_uml_id: the value returned by the last call
    prop_di_graph,      \* PropertyDiGraph: its edges with their attributes
    df,                 \* Evaluator.df: the rows as (source, target, edge type)
    df_row              \* to_property_di_graph: index of the next row

vars == <<pc, edge_set_one, edge_set_two, eval_one_unmatched,
          eval_two_unmatched, eval_one_unmatch_pref, pools,
          confident_matches, unstable_pairs, seen_ids,
          create_node, node_dec, edge_del, edge_add, node_renames,
          change_list, jpos, current, clone, match_val,
          evaluators, pair_index, evaluator_change_dict,
          uml_id, df_renames, rename_row, uml_name, uml_return,
          prop_di_graph, df, df_row>>

(***************************************************************************)
(* Bounds of the model.                                                    *)
(***************************************************************************)
MaxOrig == 3
MaxChanged == 4
MaxJsonOrig == 2
MaxJsonChanged == 3
MaxEvaluators == 3
MaxRenames == 2

\* The edges the two graphs are drawn from: the edges of test_match_changes
\* around s1/t1 and s2/t2, one edge of a type only this edge has ('orange')
\* and one of another such type ('blue').
EdgeUniverse ==
    { <<"s1", "t1", "type">>, <<"s2", "t2", "type">>,
      <<"as1", "t1", "type">>, <<"s2", "at2", "type">>,
      <<"s1", "at1", "type">>,
      <<"b", "c", "orange">>, <<"song", "tiger", "blue">> }

\* The edges match is applied to: the vertices and edge types of test_match,
\* and 'maker', another edge type as long as 'owner'.
MatchNames == {"Car", "engine", "wheel"}
MatchTypes == {"owner", "type", "memberEnd", "maker"}
MatchEdges == MatchNames \X MatchNames \X MatchTypes

NoEdge == <<>>

(***************************************************************************)
(* Helpers on sets and sequences.                                          *)
(***************************************************************************)
Range(s) == {s[i] : i \in DOMAIN s}

\* list(a_set): the lists that hold each element of S once.
ListsOf(S) ==
    {f \in [1..Cardinality(S) -> S] : \A i, j \in DOMAIN f : f[i] = f[j] => i = j}

Contains(s, x) == \E i \in DOMAIN s : s[i] = x

RemoveAll(s, x) == SelectSeq(s, LAMBDA y : y # x)

(***************************************************************************)
(* DiEdge.named_edge_triple and the edge attribute of an edge.             *)
(***************************************************************************)
Source(edge) == edge[1]
Target(edge) == edge[2]
EdgeAttribute(edge) == edge[3]

(***************************************************************************)
(* utils.match: the closeness of a candidate (clone) to an original edge   *)
(* (current).                                                              *)
(***************************************************************************)
\* Faulty variants: the two length cases exchanged; any differing endpoint
\* scored as one.
MatchSwappedLengths(cur, cln) ==
    IF Len(EdgeAttribute(cln)) # Len(EdgeAttribute(cur))
    THEN IF Len(EdgeAttribute(cln)) < Len(EdgeAttribute(cur)) THEN -2 ELSE -1
    ELSE IF (Source(cur) # Source(cln)) # (Target(cur) # Target(cln))
         THEN 1 ELSE 0

MatchEndpointsBlind(cur, cln) ==
    IF Len(EdgeAttribute(cln)) # Len(EdgeAttribute(cur))
    THEN IF Len(EdgeAttribute(cln)) < Len(EdgeAttribute(cur)) THEN -1 ELSE -2
    ELSE IF Source(cur) # Source(cln) \/ Target(cur) # Target(cln)
         THEN 1 ELSE 0

match(cur, cln) ==
    IF Len(EdgeAttribute(cln)) # Len(EdgeAttribute(cur))
    THEN IF Len(EdgeAttribute(cln)) < Len(EdgeAttribute(cur)) THEN -1 ELSE -2
    ELSE IF (Source(cur) # Source(cln)) # (Target(cur) # Target(cln))
         THEN 1 ELSE 0

(***************************************************************************)
(* Manager.get_pattern_graph_diff: the edge differ and the preference      *)
(* builder.                                                                *)
(***************************************************************************)
\* Faulty variant: the common edges are kept.
NamedDifferenceKeepsCommon(one, two) == one

\* edge_set_one_set.difference(edge_set_two_set)

NamedDifference(one, two) == one \ two

\* The keys of eval_*_unmatch_map: the edge types of the unmatched edges.
UnmatchMapKeys(unmatched) == {EdgeAttribute(unmatched[i]) : i \in DOMAIN unmatched}

\* Faulty variant: the edges are not bucketed by type.
UnmatchMapAllTypes(unmatched, edge_type) == unmatched

\* eval_*_unmatch_map[edge_type]: the unmatched edges of that type, in the
\* order of the unmatched list.

UnmatchMap(unmatched, edge_type) ==
    SelectSeq(unmatched, LAMBDA edge : EdgeAttribute(edge) = edge_type)

\* Faulty variant: the difference taken the other way round.
AnceKeysNotInBaseSwapped(one_unmatched, two_unmatched) ==
    UnmatchMapKeys(one_unmatched) \ UnmatchMapKeys(two_unmatched)

\* ance_keys_not_in_base
AnceKeysNotInBase(one_unmatched, two_unmatched) ==
    UnmatchMapKeys(two_unmatched) \ UnmatchMapKeys(one_unmatched)

\* eval_one_unmatch_pref['Added']: extended by the list of each edge type of
\* ance_keys_not_in_base, in the order the set is enumerated.
RECURSIVE PrefAdded(_, _)
PrefAdded(type_order, two_unmatched) ==
    IF type_order = <<>> THEN <<>>
    ELSE UnmatchMap(two_unmatched, Head(type_order))
         \o PrefAdded(Tail(type_order), two_unmatched)

\* Faulty variant: no edge is put in Deleted.
PrefDeletedNone(one_unmatched, two_unmatched) == <<>>

\* eval_one_unmatch_pref['Deleted']

PrefDeleted(one_unmatched, two_unmatched) ==
    SelectSeq(one_unmatched,
              LAMBDA edge : EdgeAttribute(edge) \notin UnmatchMapKeys(two_unmatched))

\* Faulty variant: every unmatched original edge gets an entry.
PrefItemsAll(one_unmatched, two_unmatched) ==
    [i \in 1..Len(one_unmatched) |->
        [key |-> one_unmatched[i],
         cands |-> UnmatchMap(two_unmatched, EdgeAttribute(one_unmatched[i]))]]

\* eval_one_unmatch_pref[edge] = copy(eval_two_unmatch_map[edge.edge_attribute])
PrefItems(one_unmatched, two_unmatched) ==
    LET kept == SelectSeq(one_unmatched,
                          LAMBDA edge : EdgeAttribute(edge) \in UnmatchMapKeys(two_unmatched))
    IN  [i \in 1..Len(kept) |->
            [key |-> kept[i],
             cands |-> UnmatchMap(two_unmatched, EdgeAttribute(kept[i]))]]

EmptyPref == [Added |-> <<>>, Deleted |-> <<>>, items |-> <<>>]

(***************************************************************************)
(* utils.match_changes: the matching of each original edge (proposer) to   *)
(* one of its candidates.  pools holds, per proposer and in the order of   *)
(* the preference dictionary, the candidates still available to it and the *)
(* candidate it has accepted, if any.                                      *)
(***************************************************************************)
\* The candidates of the pool with the highest score for the proposer.
BestCandidates(key, pool) ==
    {c \in Range(pool) : \A d \in Range(pool) : match(key, c) >= match(key, d)}

InitialPools(items) ==
    [i \in 1..Len(items) |->
        [key |-> items[i].key, pool |-> items[i].cands, got |-> <<>>]]

\* Faulty variant: the accepted candidate stays in the other pools.
AcceptKeepsCandidate(st, i, c) ==
    [j \in 1..Len(st) |->
        IF j = i THEN [st[j] EXCEPT !.got = <<c>>] ELSE st[j]]

\* A proposer with a single strict best candidate accepts it, and the
\* candidate leaves the pool of every other proposer.
Accept(st, i, c) ==
    [j \in 1..Len(st) |->
        IF j = i THEN [st[j] EXCEPT !.got = <<c>>]
        ELSE [st[j] EXCEPT !.pool = RemoveAll(@, c)]]

\* Faulty variant: of several tied candidates the first of the pool is taken.
RECURSIVE ProposeFromFirstOfTied(_, _)
ProposeFromFirstOfTied(st, i) ==
    IF i > Len(st) THEN st
    ELSE LET best == BestCandidates(st[i].key, st[i].pool)
         IN  IF st[i].got = <<>> /\ Cardinality(best) >= 1
             THEN ProposeFromFirstOfTied(
                      Accept(st, i, SelectSeq(st[i].pool, LAMBDA c : c \in best)[1]),
                      i + 1)
             ELSE ProposeFromFirstOfTied(st, i + 1)

\* One pass over the proposers from the i-th on, in the order of the input.
RECURSIVE ProposeFrom(_, _)
ProposeFrom(st, i) ==
    IF i > Len(st) THEN st
    ELSE LET best == BestCandidates(st[i].key, st[i].pool)
         IN  IF st[i].got = <<>> /\ Cardinality(best) = 1
             THEN ProposeFrom(Accept(st, i, CHOOSE c \in best : TRUE), i + 1)
             ELSE ProposeFrom(st, i + 1)

MatchPassOf(st) == ProposeFrom(st, 1)

\* The proposers left without a candidate: no match, reported as Deleted.
NoCounterpart(st) ==
    LET left == SelectSeq(st, LAMBDA p : p.got = <<>> /\ p.pool = <<>>)
    IN  [i \in 1..Len(left) |-> left[i].key]

\* Faulty variant: a tied proposer is kept with its whole pool.
ConfidentItemsWithTies(st) ==
    LET done == SelectSeq(st, LAMBDA p : p.got # <<>> \/ p.pool # <<>>)
    IN  [i \in 1..Len(done) |->
            [key |-> done[i].key,
             value |-> IF done[i].got # <<>> THEN done[i].got ELSE done[i].pool]]

\* The confident matches: each resolved proposer with its one candidate.
ConfidentItems(st) ==
    LET done == SelectSeq(st, LAMBDA p : p.got # <<>>)
    IN  [i \in 1..Len(done) |-> [key |-> done[i].key, value |-> done[i].got]]

\* The unstable pairs: each proposer still tied, with all its tied candidates.
UnstableItems(st) ==
    LET tied == SelectSeq(st, LAMBDA p : p.got = <<>> /\ p.pool # <<>>)
    IN  [i \in 1..Len(tied) |->
            [key |-> tied[i].key,
             value |-> SelectSeq(tied[i].pool,
                           LAMBDA c : c \in BestCandidates(tied[i].key, tied[i].pool))]]

\* Faulty variant: the Added list is not handed on.
ResultAddedDropped(change_dict, st) == <<>>

\* The static keys of the result: Added as given, Deleted as given followed
\* by the proposers without a counterpart.

ResultAdded(change_dict, st) == change_dict.Added

\* Faulty variant: a proposer left without a candidate is dropped.
ResultDeletedAsGiven(change_dict, st) == change_dict.Deleted

ResultDeleted(change_dict, st) == change_dict.Deleted \o NoCounterpart(st)

EmptyChanges == [Added |-> <<>>, Deleted |-> <<>>, items |-> <<>>]

\* match_changes as a function: the passes are repeated until one accepts
\* nothing, and the confident matches and the unstable pairs are returned.
RECURSIVE MatchUntilStable(_)
MatchUntilStable(st) ==
    IF MatchPassOf(st) = st THEN st ELSE MatchUntilStable(MatchPassOf(st))

match_changes(change_dict) ==
    LET st == MatchUntilStable(InitialPools(change_dict.items))
    IN  << [Added |-> ResultAdded(change_dict, st),
            Deleted |-> ResultDeleted(change_dict, st),
            items |-> ConfidentItems(st)],
           UnstableItems(st) >>

(***************************************************************************)
(* Vertex: the id and the rename flag of the vertex of each name, as the   *)
(* translator of the changed evaluator holds them.  An id read from an ID  *)
(* sheet is a string or a number; the id of a name without one is a fresh  *)
(* uuid.  as1 and at1 are the new names of s1 and t1 when the changed      *)
(* graph no longer has a vertex of the old name (a rename replaces every   *)
(* occurrence of the old name), and are new vertices otherwise; a renamed  *)
(* vertex keeps the id of the name it supersedes.                          *)
(***************************************************************************)
VertexNames ==
    {"s1", "s2", "as1", "t1", "t2", "at1", "at2", "b", "c", "song", "tiger"}

VerticesOf(edges) == {Source(e) : e \in edges} \cup {Target(e) : e \in edges}

OldName(name) ==
    CASE name = "as1" -> "s1"
      [] name = "at1" -> "t1"
      [] OTHER -> name

HasRename(name) ==
    /\ OldName(name) # name
    /\ OldName(name) \notin VerticesOf(edge_set_two)

VertexId(name) ==
    CASE HasRename(name) /\ name = "as1" -> <<"str", "s1">>
      [] HasRename(name) /\ name = "at1" -> <<"int", "t1">>
      [] name \in {"s1", "s2", "c", "song"} -> <<"str", name>>
      [] name \in {"t1", "t2", "tiger"} -> <<"int", name>>
      [] OTHER -> <<"uuid", name>>

\* isinstance(x.id, type(uuid.uuid4()))
IsNewId(id) == id[1] = "uuid"

\* The ids of translator.uml_id that are strings.
StringIds == {VertexId(n) : n \in {m \in VertexNames : VertexId(m)[1] = "str"}}

(***************************************************************************)
(* The instructions: Vertex.create_node_to_uml, Vertex.change_node_to_uml  *)
(* and DiEdge.edge_to_uml, each reduced to its operation and its subject.  *)
(***************************************************************************)
NodeInstruction(op, name) == [op |-> op, node |-> name, edge |-> NoEdge]

EdgeToUml(edge, op) == [op |-> op, node |-> "", edge |-> edge]

CreateNodeToUml(name) ==
    [cr |-> <<NodeInstruction("create", name)>>,
     dec |-> <<NodeInstruction("decorate", name)>>,
     edg |-> <<>>]

ChangeNodeToUml(name) == NodeInstruction("rename", name)

\* utils.remove_duplicates: each instruction once, at its first place.
RECURSIVE remove_duplicates(_)
remove_duplicates(list) ==
    IF list = <<>> THEN <<>>
    ELSE LET front == remove_duplicates(SubSeq(list, 1, Len(list) - 1))
             last == list[Len(list)]
         IN  IF Contains(front, last) THEN front ELSE Append(front, last)

(***************************************************************************)
(* Manager.graph_difference_to_json.  The lists being built are held in a  *)
(* record js: seen, create, dec, del, add, ren.                            *)
(***************************************************************************)
\* One endpoint of an Added edge: created with its decorations when its id
\* has not been seen.
AddedEndpoint(js, name) ==
    IF VertexId(name) \notin js.seen
    THEN [js EXCEPT !.seen = @ \cup {VertexId(name)},
                    !.create = @ \o CreateNodeToUml(name).cr,
                    !.dec = @ \o CreateNodeToUml(name).dec,
                    !.add = @ \o CreateNodeToUml(name).edg]
    ELSE js

\* key == 'Added': the loop over the added edges.
RECURSIVE AddedEdges(_, _)
AddedEdges(js, value) ==
    IF value = <<>> THEN js
    ELSE LET edge == Head(value)
             s == AddedEndpoint(js, Source(edge))
             t == AddedEndpoint(s, Target(edge))
         IN  AddedEdges([t EXCEPT !.add = Append(@, EdgeToUml(edge, "replace"))],
                        Tail(value))

\* Faulty variant: the endpoints of a deleted edge are deleted with it.
DeletedEdgesWithNodes(js, value) ==
    [js EXCEPT !.seen = @ \cup {VertexId(Source(value[i])) : i \in DOMAIN value},
               !.del = @ \o [i \in DOMAIN value |-> EdgeToUml(value[i], "delete")]
                         \o [i \in DOMAIN value |->
                                NodeInstruction("delete", Source(value[i]))]]

\* key == 'Deleted': the loop over the deleted edges.
RECURSIVE DeletedEdges(_, _)
DeletedEdges(js, value) ==
    IF value = <<>> THEN js
    ELSE DeletedEdges([js EXCEPT !.del = Append(@, EdgeToUml(Head(value), "delete"))],
                      Tail(value))

\* The loop over has_rename: each node renamed and its id seen.
RECURSIVE RenameNodes(_, _)
RenameNodes(js, nodes) ==
    IF nodes = <<>> THEN js
    ELSE RenameNodes([js EXCEPT !.seen = @ \cup {VertexId(Head(nodes))},
                                !.ren = Append(@, ChangeNodeToUml(Head(nodes)))],
                     Tail(nodes))

\* The loop over is_new: each node created with its decorations, its id seen.
RECURSIVE NewNodes(_, _)
NewNodes(js, nodes) ==
    IF nodes = <<>> THEN js
    ELSE NewNodes([js EXCEPT !.seen = @ \cup {VertexId(Head(nodes))},
                             !.create = @ \o CreateNodeToUml(Head(nodes)).cr,
                             !.dec = @ \o CreateNodeToUml(Head(nodes)).dec,
                             !.add = @ \o CreateNodeToUml(Head(nodes)).edg],
                  Tail(nodes))

\* Faulty variant: both endpoints are eligible, seen or not.
ChangedEdgeSeenIgnored(js, value) ==
    LET edge == value[1]
        eligible == <<Source(edge), Target(edge)>>
        has_rename == SelectSeq(eligible, LAMBDA x : HasRename(x))
        is_new == SelectSeq(eligible, LAMBDA x : IsNewId(VertexId(x)))
        replace == EdgeToUml(edge, "replace")
        r == IF has_rename # <<>>
             THEN [RenameNodes(js, has_rename) EXCEPT !.add = Append(@, replace)]
             ELSE js
        n == IF is_new # <<>>
             THEN [NewNodes(r, is_new) EXCEPT !.add = Append(@, replace)]
             ELSE r
    IN  IF has_rename = <<>> /\ is_new = <<>>
        THEN [n EXCEPT !.add = Append(@, replace)]
        ELSE n

\* Faulty variant: an edge without an eligible renamed or new endpoint
\* yields no instruction.
ChangedEdgeNoFallThrough(js, value) ==
    LET edge == value[1]
        eligible == SelectSeq(<<Source(edge), Target(edge)>>,
                              LAMBDA x : VertexId(x) \notin js.seen)
        has_rename == SelectSeq(eligible, LAMBDA x : HasRename(x))
        is_new == SelectSeq(eligible, LAMBDA x : IsNewId(VertexId(x)))
        replace == EdgeToUml(edge, "replace")
        r == IF has_rename # <<>>
             THEN [RenameNodes(js, has_rename) EXCEPT !.add = Append(@, replace)]
             ELSE js
    IN  IF is_new # <<>>
        THEN [NewNodes(r, is_new) EXCEPT !.add = Append(@, replace)]
        ELSE r

\* Any other key: a changed edge, value[0] being the edge matched to the key.
ChangedEdge(js, value) ==
    LET edge == value[1]
        eligible == SelectSeq(<<Source(edge), Target(edge)>>,
                              LAMBDA x : VertexId(x) \notin js.seen)
        has_rename == SelectSeq(eligible, LAMBDA x : HasRename(x))
        is_new == SelectSeq(eligible, LAMBDA x : IsNewId(VertexId(x)))
        replace == EdgeToUml(edge, "replace")
        r == IF has_rename # <<>>
             THEN [RenameNodes(js, has_rename) EXCEPT !.add = Append(@, replace)]
             ELSE js
        n == IF is_new # <<>>
             THEN [NewNodes(r, is_new) EXCEPT !.add = Append(@, replace)]
             ELSE r
    IN  IF has_rename = <<>> /\ is_new = <<>>
        THEN [n EXCEPT !.add = Append(@, replace)]
        ELSE n

\* Faulty variant: the lists are joined as they were built.
ChangeListKeepsDuplicates(js) ==
    (IF js.create # <<>> THEN js.create \o js.dec ELSE <<>>)
    \o js.del
    \o js.ren

\* Faulty variant: the renamed nodes before the deleted edges.
ChangeListRenamesFirst(js) ==
    (IF js.create # <<>>
     THEN remove_duplicates(js.create) \o remove_duplicates(js.dec)
     ELSE <<>>)
    \o remove_duplicates(js.ren)
    \o remove_duplicates(js.del)

\* The change list: created nodes and their decorations, deleted edges,
\* renamed nodes.
ChangeList(js) ==
    (IF js.create # <<>>
     THEN remove_duplicates(js.create) \o remove_duplicates(js.dec)
     ELSE <<>>)
    \o remove_duplicates(js.del)
    \o remove_duplicates(js.ren)

\* The loop over the changed edges of the confident matches.
RECURSIVE ChangedEdgeLoop(_, _)
ChangedEdgeLoop(js, items) ==
    IF items = <<>> THEN js
    ELSE ChangedEdgeLoop(ChangedEdge(js, Head(items).value), Tail(items))

\* graph_difference_to_json as a function of the change dictionary: the
\* returned change list.
graph_difference_to_json(change_dict) ==
    LET start == [seen |-> StringIds, create |-> <<>>, dec |-> <<>>,
                  del |-> <<>>, add |-> <<>>, ren |-> <<>>]
        added == AddedEdges(start, change_dict.Added)
        deleted == DeletedEdges(added, change_dict.Deleted)
    IN  ChangeList(ChangedEdgeLoop(deleted, change_dict.items))

JsonState ==
    [seen |-> seen_ids, create |-> create_node, dec |-> node_dec,
     del |-> edge_del, add |-> edge_add, ren |-> node_renames]

SetJsonState(js) ==
    /\ seen_ids' = js.seen
    /\ create_node' = js.create
    /\ node_dec' = js.dec
    /\ edge_del' = js.del
    /\ edge_add' = js.add
    /\ node_renames' = js.ren

(***************************************************************************)
(* The reconciliation of one pair of graphs.                               *)
(***************************************************************************)
Graphs(max) == {g \in SUBSET EdgeUniverse : Cardinality(g) <= max}

NoJson ==
    /\ seen_ids = {}
    /\ create_node = <<>>
    /\ node_dec = <<>>
    /\ edge_del = <<>>
    /\ edge_add = <<>>
    /\ node_renames = <<>>
    /\ change_list = <<>>
    /\ jpos = 0

NoDiff ==
    /\ eval_one_unmatched = <<>>
    /\ eval_two_unmatched = <<>>
    /\ eval_one_unmatch_pref = EmptyPref
    /\ pools = <<>>
    /\ confident_matches = EmptyChanges
    /\ unstable_pairs = <<>>

NoGraph ==
    /\ prop_di_graph = <<>>
    /\ df = <<>>
    /\ df_row = 0

NoTranslator ==
    /\ NoGraph
    /\ uml_id = <<>>
    /\ df_renames = <<>>
    /\ rename_row = 0
    /\ uml_name = ""
    /\ uml_return = <<>>

NoPairs ==
    /\ evaluators = <<>>
    /\ pair_index = 0
    /\ evaluator_change_dict = <<>>
    /\ NoTranslator

Init ==
    /\ pc = "start"
    /\ edge_set_one \in Graphs(MaxOrig)
    /\ edge_set_two \in Graphs(MaxChanged)
    /\ NoDiff
    /\ NoJson
    /\ current = NoEdge
    /\ clone = NoEdge
    /\ match_val = 0
    /\ NoPairs

jsonVars == <<seen_ids, create_node, node_dec, edge_del, edge_add,
              node_renames, change_list, jpos>>
matchVars == <<current, clone, match_val>>
pairVars == <<evaluators, pair_index, evaluator_change_dict>>
translatorVars == <<uml_id, df_renames, rename_row, uml_name, uml_return>>
pdgVars == <<prop_di_graph, df, df_row>>
graphVars == <<edge_set_one, edge_set_two>>
diffVars == <<eval_one_unmatched, eval_two_unmatched, eval_one_unmatch_pref>>
resultVars == <<confident_matches, unstable_pairs>>

\* get_pattern_graph_diff up to the call of match_changes: the unmatched
\* edges of each graph, listed in any order, and the preference dictionary.
GetPatternGraphDiff ==
    /\ pc = "start"
    /\ \E one \in ListsOf(NamedDifference(edge_set_one, edge_set_two)),
          two \in ListsOf(NamedDifference(edge_set_two, edge_set_one)) :
         \E type_order \in ListsOf(AnceKeysNotInBase(one, two)) :
            /\ eval_one_unmatched' = one
            /\ eval_two_unmatched' = two
            /\ eval_one_unmatch_pref' = [Added |-> PrefAdded(type_order, two),
                        Deleted |-> PrefDeleted(one, two),
                        items |-> PrefItems(one, two)]
            /\ pools' = InitialPools(PrefItems(one, two))
    /\ pc' = "match"
    /\ UNCHANGED <<graphVars, resultVars, jsonVars, matchVars, translatorVars, pdgVars, pairVars>>

\* Faulty variant: the pass is run again without its acceptances being kept.
MatchPassNothingKept ==
    /\ pc = "match"
    /\ MatchPassOf(pools) # pools
    /\ pools' = pools
    /\ UNCHANGED <<pc, graphVars, diffVars, resultVars, jsonVars, matchVars, translatorVars, pdgVars, pairVars>>

\* match_changes: one more pass, some proposer having accepted a candidate.
MatchPass ==
    /\ pc = "match"
    /\ MatchPassOf(pools) # pools
    /\ pools' = MatchPassOf(pools)
    /\ UNCHANGED <<pc, graphVars, diffVars, resultVars, jsonVars, matchVars, translatorVars, pdgVars, pairVars>>

\* match_changes: a pass accepted nothing; the two mappings are returned.
MatchReturn ==
    /\ pc = "match"
    /\ MatchPassOf(pools) = pools
    /\ confident_matches' = [Added |-> ResultAdded(eval_one_unmatch_pref, pools),
                     Deleted |-> ResultDeleted(eval_one_unmatch_pref, pools),
                     items |-> ConfidentItems(pools)]
    /\ unstable_pairs' = UnstableItems(pools)
    /\ pc' = "matched"
    /\ UNCHANGED <<graphVars, diffVars, pools, jsonVars, matchVars, translatorVars, pdgVars, pairVars>>

\* Faulty variant: the seen ids of the call before are kept.
JsonStartKeepsSeen ==
    /\ pc = "matched"
    /\ seen_ids' = seen_ids \cup StringIds
    /\ create_node' = <<>>
    /\ node_dec' = <<>>
    /\ edge_del' = <<>>
    /\ edge_add' = <<>>
    /\ node_renames' = <<>>
    /\ change_list' = <<>>
    /\ jpos' = 1
    /\ pc' = "json"
    /\ UNCHANGED <<graphVars, diffVars, pools, resultVars, matchVars, translatorVars, pdgVars, pairVars>>

\* graph_difference_to_json is called with the confident matches: its lists
\* start empty and seen_ids as the string ids of the translator.
JsonStart ==
    /\ pc = "matched"
    /\ seen_ids' = StringIds
    /\ create_node' = <<>>
    /\ node_dec' = <<>>
    /\ edge_del' = <<>>
    /\ edge_add' = <<>>
    /\ node_renames' = <<>>
    /\ change_list' = <<>>
    /\ jpos' = 1
    /\ pc' = "json"
    /\ UNCHANGED <<graphVars, diffVars, pools, resultVars, matchVars, translatorVars, pdgVars, pairVars>>

JsonAdded ==
    /\ pc = "json"
    /\ jpos = 1
    /\ SetJsonState(AddedEdges(JsonState, confident_matches.Added))
    /\ jpos' = jpos + 1
    /\ UNCHANGED <<pc, graphVars, diffVars, pools, resultVars,
                   change_list, matchVars, translatorVars, pdgVars, pairVars>>

JsonDeleted ==
    /\ pc = "json"
    /\ jpos = 2
    /\ SetJsonState(DeletedEdges(JsonState, confident_matches.Deleted))
    /\ jpos' = jpos + 1
    /\ UNCHANGED <<pc, graphVars, diffVars, pools, resultVars,
                   change_list, matchVars, translatorVars, pdgVars, pairVars>>

\* Faulty variant: the unstable pairs are processed after the confident
\* matches, each by the first of its tied candidates.
JsonChangedWithUnstable ==
    /\ pc = "json"
    /\ jpos \in 3..(Len(confident_matches.items) + Len(unstable_pairs) + 2)
    /\ SetJsonState(ChangedEdge(JsonState,
            (confident_matches.items \o unstable_pairs)[jpos - 2].value))
    /\ jpos' = jpos + 1
    /\ UNCHANGED <<pc, graphVars, diffVars, pools, resultVars,
                   change_list, matchVars, translatorVars, pdgVars, pairVars>>

JsonChanged ==
    /\ pc = "json"
    /\ jpos \in 3..(Len(confident_matches.items) + 2)
    /\ SetJsonState(ChangedEdge(JsonState, confident_matches.items[jpos - 2].value))
    /\ jpos' = jpos + 1
    /\ UNCHANGED <<pc, graphVars, diffVars, pools, resultVars,
                   change_list, matchVars, translatorVars, pdgVars, pairVars>>

JsonReturn ==
    /\ pc = "json"
    /\ jpos = Len(confident_matches.items) + 3
    /\ change_list' = ChangeList(JsonState)
    /\ pc' = "done"
    /\ UNCHANGED <<graphVars, diffVars, pools, resultVars, seen_ids,
                   create_node, node_dec, edge_del, edge_add, node_renames,
                   jpos, matchVars, translatorVars, pdgVars, pairVars>>

Next ==
    \/ GetPatternGraphDiff
    \/ MatchPass
    \/ MatchReturn
    \/ JsonStart
    \/ JsonAdded
    \/ JsonDeleted
    \/ JsonChanged
    \/ JsonReturn

Spec == Init /\ [][Next]_vars

(***************************************************************************)
(* The reconciliation of one pair of graphs whose changed graph renames    *)
(* t1 to at1 and holds new vertices shared by several edges, a new vertex  *)
(* linked to itself and a changed edge of already known vertices.          *)
(***************************************************************************)
OriginalEdges ==
    { <<"s1", "t1", "type">>, <<"s2", "t1", "owner">>,
      <<"song", "tiger", "blue">>, <<"s2", "t2", "maker">> }

ChangedEdges ==
    { <<"s1", "at1", "type">>, <<"at2", "at1", "type">>,
      <<"s2", "at1", "owner">>, <<"at2", "at2", "blue">>,
      <<"s2", "at2", "maker">>, <<"s1", "t2", "maker">>,
      <<"b", "at2", "orange">>, <<"b", "c", "orange">> }

InitJson ==
    /\ pc = "start"
    /\ edge_set_one \in {g \in SUBSET OriginalEdges : Cardinality(g) <= MaxJsonOrig}
    /\ edge_set_two \in {g \in SUBSET ChangedEdges : Cardinality(g) <= MaxJsonChanged}
    /\ NoDiff
    /\ NoJson
    /\ current = NoEdge
    /\ clone = NoEdge
    /\ match_val = 0
    /\ NoPairs

SpecJson == InitJson /\ [][Next]_vars

(***************************************************************************)
(* Manager.get_pattern_graph_diff over the list of evaluators: the loop    *)
(* over combinations(self.evaluators, 2).  An evaluator is its edge set;   *)
(* it has a rename sheet when a vertex of its graph carries the new name   *)
(* of a vertex the graph no longer has.  The variables of one comparison   *)
(* are the local variables of the loop body and of                         *)
(* graph_difference_to_json: they keep their last value until the code     *)
(* assigns them again.                                                     *)
(***************************************************************************)
PairEdges ==
    { <<"s1", "t1", "type">>, <<"s1", "at1", "type">>, <<"b", "c", "orange">> }

\* Evaluator.has_rename
EvaluatorHasRename(edge_set) ==
    \E n \in VerticesOf(edge_set) :
        OldName(n) # n /\ OldName(n) \notin VerticesOf(edge_set)

\* combinations(range(n), 2), in the order itertools yields them.
RECURSIVE CombinationsFrom(_, _, _)
CombinationsFrom(i, j, n) ==
    IF i >= n THEN <<>>
    ELSE IF j > n THEN CombinationsFrom(i + 1, i + 2, n)
    ELSE << <<i, j>> >> \o CombinationsFrom(i, j + 1, n)

Combinations(n) == CombinationsFrom(1, 2, n)

Pair == Combinations(Len(evaluators))[pair_index]

InitPairs ==
    /\ pc = "pair"
    /\ NoTranslator
    /\ evaluators \in UNION {[1..n -> SUBSET PairEdges] : n \in 1..MaxEvaluators}
    /\ pair_index = 1
    /\ evaluator_change_dict = <<>>
    /\ edge_set_one = {}
    /\ edge_set_two = {}
    /\ NoDiff
    /\ NoJson
    /\ current = NoEdge
    /\ clone = NoEdge
    /\ match_val = 0

\* Both evaluators of the pair have a rename sheet: continue.
PairSkip ==
    /\ pc = "pair"
    /\ pair_index <= Len(Combinations(Len(evaluators)))
    /\ EvaluatorHasRename(evaluators[Pair[1]])
    /\ EvaluatorHasRename(evaluators[Pair[2]])
    /\ pair_index' = pair_index + 1
    /\ UNCHANGED <<pc, graphVars, diffVars, pools, resultVars, jsonVars,
                   matchVars, translatorVars, pdgVars, evaluators, evaluator_change_dict>>

\* Any other pair is compared: pair[0] gives edge_set_one, pair[1]
\* edge_set_two.
PairCompare ==
    /\ pc = "pair"
    /\ pair_index <= Len(Combinations(Len(evaluators)))
    /\ ~(EvaluatorHasRename(evaluators[Pair[1]])
            /\ EvaluatorHasRename(evaluators[Pair[2]]))
    /\ edge_set_one' = evaluators[Pair[1]]
    /\ edge_set_two' = evaluators[Pair[2]]
    /\ pc' = "start"
    /\ UNCHANGED <<diffVars, pools, resultVars, jsonVars, matchVars, translatorVars, pdgVars, pairVars>>

\* The result of the comparison is stored under the key of the pair, made
\* of the indices of its two evaluators.
PairUpdate ==
    /\ pc = "done"
    /\ pair_index >= 1
    /\ evaluator_change_dict' =
          Append(evaluator_change_dict,
                 [key |-> <<Pair[1] - 1, Pair[2] - 1>>,
                  Changes |-> confident_matches,
                  Unstable |-> unstable_pairs])
    /\ pair_index' = pair_index + 1
    /\ pc' = "pair"
    /\ UNCHANGED <<graphVars, diffVars, pools, resultVars, jsonVars,
                   matchVars, translatorVars, pdgVars, evaluators>>

\* No pair is left: the dictionary is returned.
PairsReturn ==
    /\ pc = "pair"
    /\ pair_index > Len(Combinations(Len(evaluators)))
    /\ pc' = "returned"
    /\ UNCHANGED <<graphVars, diffVars, pools, resultVars, jsonVars,
                   matchVars, translatorVars, pdgVars, pairVars>>

\* Faulty variant: the dictionary of the call before is kept.
CallAgainKeepsDict ==
    /\ pc = "returned"
    /\ pair_index' = 1
    /\ pc' = "pair"
    /\ UNCHANGED <<graphVars, diffVars, pools, resultVars, jsonVars,
                   matchVars, translatorVars, pdgVars, evaluators,
                   evaluator_change_dict>>

\* get_pattern_graph_diff is called again on the same evaluators: the
\* dictionary starts empty and the loop over the pairs starts again.
CallAgain ==
    /\ pc = "returned"
    /\ evaluator_change_dict' = <<>>
    /\ pair_index' = 1
    /\ pc' = "pair"
    /\ UNCHANGED <<graphVars, diffVars, pools, resultVars, jsonVars,
                   matchVars, translatorVars, pdgVars, evaluators>>

NextPairs ==
    \/ CallAgain
    \/ PairSkip
    \/ PairCompare
    \/ GetPatternGraphDiff
    \/ MatchPass
    \/ MatchReturn
    \/ JsonStart
    \/ JsonAdded
    \/ JsonDeleted
    \/ JsonChanged
    \/ JsonReturn
    \/ PairUpdate
    \/ PairsReturn

SpecPairs == InitPairs /\ [][NextPairs]_vars

(***************************************************************************)
(* match applied to a pair of edges.                                       *)
(***************************************************************************)
InitMatch ==
    /\ pc = "match_call"
    /\ current \in MatchEdges
    /\ clone \in MatchEdges
    /\ match_val = 0
    /\ NoPairs
    /\ edge_set_one = {}
    /\ edge_set_two = {}
    /\ NoDiff
    /\ NoJson

MatchCall ==
    /\ pc = "match_call"
    /\ match_val' = match(current, clone)
    /\ pc' = "match_return"
    /\ UNCHANGED <<graphVars, diffVars, pools, resultVars, jsonVars,
                   current, clone, pairVars, translatorVars, pdgVars>>

NextMatch == MatchCall

SpecMatch == InitMatch /\ [][NextMatch]_vars

(***************************************************************************)
(* The id table of the translator: Evaluator.sheets_to_dataframe reading   *)
(* the rows of a rename sheet, then MDTranslator.get_uml_id called for the *)
(* names of the graph.  uml_id maps each name to its id, NoId when the     *)
(* name is no key of the table.  The id an ID sheet gives a name is tagged *)
(* with the name; uuid.uuid4() returns a value no other call returns, here *)
(* tagged with the name it was made for.                                   *)
(***************************************************************************)
TranslatorNames == {"Car", "engine", "orange", "green"}

NoId == <<>>

SheetId(name) == IF name = "Car" THEN <<"str", name>> ELSE <<"int", name>>

Uuid4(name) == <<"uuid", name>>

RenameRows == {row \in TranslatorNames \X TranslatorNames : row[1] # row[2]}

InitTranslator ==
    /\ pc = "renames"
    /\ NoGraph
    /\ \E known \in SUBSET TranslatorNames :
          uml_id = [n \in TranslatorNames |-> IF n \in known THEN SheetId(n) ELSE NoId]
    /\ df_renames \in UNION {[1..k -> RenameRows] : k \in 0..MaxRenames}
    /\ rename_row = 1
    /\ uml_name = ""
    /\ uml_return = NoId
    /\ evaluators = <<>>
    /\ pair_index = 0
    /\ evaluator_change_dict = <<>>
    /\ edge_set_one = {}
    /\ edge_set_two = {}
    /\ NoDiff
    /\ NoJson
    /\ current = NoEdge
    /\ clone = NoEdge
    /\ match_val = 0

otherVars == <<graphVars, diffVars, pools, resultVars, jsonVars, matchVars,
               pairVars, pdgVars>>

\* Faulty variant: the new name of a row is given an id of its own.
RenameRowFreshId ==
    /\ pc = "renames"
    /\ rename_row <= Len(df_renames)
    /\ LET row == df_renames[rename_row]
       IN  /\ ~(uml_id[row[1]] # NoId /\ uml_id[row[2]] # NoId)
           /\ uml_id' =
                 IF uml_id[row[1]] # NoId
                 THEN [uml_id EXCEPT ![row[2]] = Uuid4(row[2])]
                 ELSE IF uml_id[row[2]] # NoId
                 THEN [uml_id EXCEPT ![row[1]] = Uuid4(row[1])]
                 ELSE uml_id
    /\ rename_row' = rename_row + 1
    /\ UNCHANGED <<pc, df_renames, uml_name, uml_return, otherVars>>

\* A row of the rename sheet both of whose names are keys of the table:
\* RuntimeError('Both old and new in keys').
RenameBothInKeys ==
    /\ pc = "renames"
    /\ rename_row <= Len(df_renames)
    /\ LET row == df_renames[rename_row]
       IN  uml_id[row[1]] # NoId /\ uml_id[row[2]] # NoId
    /\ pc' = "error"
    /\ UNCHANGED <<translatorVars, otherVars>>

\* Any other row: the name of the row that is a key of the table is the old
\* name, and the other name gets its id; nothing when neither is a key.
RenameRow ==
    /\ pc = "renames"
    /\ rename_row <= Len(df_renames)
    /\ LET row == df_renames[rename_row]
       IN  /\ ~(uml_id[row[1]] # NoId /\ uml_id[row[2]] # NoId)
           /\ uml_id' =
                 IF uml_id[row[1]] # NoId
                 THEN [uml_id EXCEPT ![row[2]] = uml_id[row[1]]]
                 ELSE IF uml_id[row[2]] # NoId
                 THEN [uml_id EXCEPT ![row[1]] = uml_id[row[2]]]
                 ELSE uml_id
    /\ rename_row' = rename_row + 1
    /\ UNCHANGED <<pc, df_renames, uml_name, uml_return, otherVars>>

\* The rows are exhausted.
RenamesDone ==
    /\ pc = "renames"
    /\ rename_row > Len(df_renames)
    /\ pc' = "ids"
    /\ UNCHANGED <<translatorVars, otherVars>>

\* MDTranslator.get_uml_id(name)
GetUmlId ==
    /\ pc = "ids"
    /\ \E name \in TranslatorNames :
          /\ uml_name' = name
          /\ uml_id' = IF uml_id[name] # NoId THEN uml_id
                       ELSE [uml_id EXCEPT ![name] = Uuid4(name)]
          /\ uml_return' = uml_id'[name]
    /\ UNCHANGED <<pc, df_renames, rename_row, otherVars>>

NextTranslator ==
    \/ RenameBothInKeys
    \/ RenameRow
    \/ RenamesDone
    \/ GetUmlId

SpecTranslator == InitTranslator /\ [][NextTranslator]_vars

(***************************************************************************)
(* Properties.                                                             *)
(***************************************************************************)
Diffed == pc \in {"match", "matched", "json", "done"}
Matched == pc \in {"matched", "json", "done"}

UnmatchedOriginal == edge_set_one \ edge_set_two
UnmatchedChanged == edge_set_two \ edge_set_one
TypesOf(edges) == {EdgeAttribute(e) : e \in edges}

KeysOf(items) == {items[i].key : i \in DOMAIN items}
Occurrences(list, x) == Cardinality({i \in DOMAIN list : list[i] = x})
KeyOccurrences(items, x) == Cardinality({i \in DOMAIN items : items[i].key = x})
ValuesOf(items) == UNION {Range(items[i].value) : i \in DOMAIN items}

\* C1: the score of a candidate is -1 when its edge type label is shorter
\* than the original's and -2 when it is longer; with labels of equal length
\* it is 1 when exactly one of source name and target name differs and 0
\* when both differ; no other score is returned.
C1_Closeness ==
    pc = "match_return" =>
        LET lo == Len(EdgeAttribute(current))
            lc == Len(EdgeAttribute(clone))
            sd == Source(current) # Source(clone)
            td == Target(current) # Target(clone)
        IN  /\ match_val \in {1, 0, -1, -2}
            /\ lc < lo => match_val = -1
            /\ lc > lo => match_val = -2
            /\ (lc = lo /\ sd # td) => match_val = 1
            /\ (lc = lo /\ sd /\ td) => match_val = 0

C1_Witness ==
    /\ pc = "match_return"
    /\ current = <<"Car", "engine", "owner">>
    /\ clone = <<"wheel", "engine", "maker">>
    /\ match_val = 1

\* The candidates of an original edge that no other original edge has been
\* confidently matched to.
StillAvailable(i) ==
    {c \in Range(eval_one_unmatch_pref.items[i].cands) :
        \A k \in DOMAIN confident_matches.items :
            confident_matches.items[k].key # eval_one_unmatch_pref.items[i].key
                => c \notin Range(confident_matches.items[k].value)}

BestOf(key, cands) ==
    {c \in cands : \A d \in cands : match(key, c) >= match(key, d)}

\* C2: once matching has converged, an original edge with two or more still
\* available candidates of best score is a key of unstable_pairs whose value
\* holds all of them, and is not a key of confident_matches.
C2_TieDetection ==
    Matched =>
        \A i \in DOMAIN eval_one_unmatch_pref.items :
            LET key == eval_one_unmatch_pref.items[i].key
                tied == BestOf(key, StillAvailable(i))
            IN  Cardinality(tied) >= 2 =>
                    /\ \E k \in DOMAIN unstable_pairs :
                          /\ unstable_pairs[k].key = key
                          /\ tied \subseteq Range(unstable_pairs[k].value)
                    /\ key \notin KeysOf(confident_matches.items)

C2_Witness ==
    /\ pc = "matched"
    /\ \E k \in DOMAIN unstable_pairs :
          /\ unstable_pairs[k].key = <<"s1", "t1", "type">>
          /\ Range(unstable_pairs[k].value)
                = {<<"as1", "t1", "type">>, <<"s1", "at1", "type">>}
    /\ <<"s1", "t1", "type">> \notin KeysOf(confident_matches.items)

\* C3: every unmatched original edge is in exactly one of the keys of
\* confident_matches, the keys of unstable_pairs and the Deleted list, once.
C3_Partition ==
    Matched =>
        \A e \in UnmatchedOriginal :
            KeyOccurrences(confident_matches.items, e) + KeyOccurrences(unstable_pairs, e)
                + Occurrences(confident_matches.Deleted, e) = 1

C3_Witness ==
    /\ pc = "matched"
    /\ Len(confident_matches.items) = 1
    /\ Len(unstable_pairs) = 1
    /\ confident_matches.Deleted # <<>>

\* The original edges of one type that have candidates, and their candidates
\* of best score in the list handed to match_changes.
FirstBest(i) == BestOf(eval_one_unmatch_pref.items[i].key, Range(eval_one_unmatch_pref.items[i].cands))
SameType(i, j) == EdgeAttribute(eval_one_unmatch_pref.items[i].key) = EdgeAttribute(eval_one_unmatch_pref.items[j].key)

ConfidentlyMatchedTo(key, c) ==
    \E k \in DOMAIN confident_matches.items :
        confident_matches.items[k].key = key /\ confident_matches.items[k].value = <<c>>

UnstableAgainst(key, tied) ==
    \E k \in DOMAIN unstable_pairs :
        /\ unstable_pairs[k].key = key
        /\ Range(unstable_pairs[k].value) = tied
        /\ Len(unstable_pairs[k].value) = Cardinality(tied)

Scenario ==
    /\ edge_set_one = {<<"s1", "t1", "type">>, <<"s2", "t2", "type">>}
    /\ edge_set_two = {<<"as1", "t1", "type">>, <<"s2", "at2", "type">>,
                       <<"s1", "at1", "type">>}

ScenarioResult ==
    /\ confident_matches.items
          = << [key |-> <<"s2", "t2", "type">>, value |-> << <<"s2", "at2", "type">> >>] >>
    /\ Len(unstable_pairs) = 1
    /\ UnstableAgainst(<<"s1", "t1", "type">>,
                       {<<"as1", "t1", "type">>, <<"s1", "at1", "type">>})

C5_AddedOnly ==
    Diffed =>
        \A c \in UnmatchedChanged :
            EdgeAttribute(c) \notin TypesOf(UnmatchedOriginal) =>
                /\ Occurrences(eval_one_unmatch_pref.Added, c) = 1
                /\ \A i \in DOMAIN eval_one_unmatch_pref.items : c \notin Range(eval_one_unmatch_pref.items[i].cands)
                /\ \A i \in DOMAIN pools : c \notin Range(pools[i].pool)
                /\ c \notin ValuesOf(confident_matches.items)
                /\ c \notin ValuesOf(unstable_pairs)

C5_Witness ==
    /\ pc = "matched"
    /\ eval_one_unmatch_pref.Added = << <<"b", "c", "orange">> >>
    /\ confident_matches.items # <<>>
    /\ unstable_pairs # <<>>

\* C6: an unmatched original edge whose edge type no unmatched changed edge
\* has is in the Deleted list of the preference builder and is no key of the
\* preference map, of confident_matches or of unstable_pairs; an unmatched
\* original edge whose type some unmatched changed edge has is not put in
\* Deleted by the preference builder.
C6_DeletedOnly ==
    Diffed =>
        \A e \in UnmatchedOriginal :
            IF EdgeAttribute(e) \notin TypesOf(UnmatchedChanged)
            THEN /\ Occurrences(eval_one_unmatch_pref.Deleted, e) = 1
                 /\ e \notin KeysOf(eval_one_unmatch_pref.items)
                 /\ e \notin KeysOf(pools)
                 /\ e \notin KeysOf(confident_matches.items)
                 /\ e \notin KeysOf(unstable_pairs)
            ELSE /\ ~Contains(eval_one_unmatch_pref.Deleted, e)
                 /\ KeyOccurrences(eval_one_unmatch_pref.items, e) = 1

C6_Witness ==
    /\ pc = "matched"
    /\ eval_one_unmatch_pref.Deleted = << <<"song", "tiger", "blue">> >>
    /\ KeysOf(eval_one_unmatch_pref.items) = {<<"s1", "t1", "type">>}

\* C7: differencing a graph against a graph with the same named edge triples
\* gives an empty Added list, an empty Deleted list and a preference map
\* without keys; and no edge is ever a candidate of itself.
C7_Idempotence ==
    Diffed =>
        /\ edge_set_one = edge_set_two =>
              /\ eval_one_unmatch_pref.Added = <<>>
              /\ eval_one_unmatch_pref.Deleted = <<>>
              /\ eval_one_unmatch_pref.items = <<>>
              /\ eval_one_unmatched = <<>>
              /\ eval_two_unmatched = <<>>
        /\ \A i \in DOMAIN eval_one_unmatch_pref.items :
              eval_one_unmatch_pref.items[i].key \notin Range(eval_one_unmatch_pref.items[i].cands)

C7_Witness ==
    /\ pc = "match"
    /\ edge_set_one = edge_set_two
    /\ Cardinality(edge_set_one) = 2

\* C8: the candidate list of every unmatched original edge whose type occurs
\* among the unmatched changed edges holds exactly the unmatched changed
\* edges of that type, each once, and every such original edge has a list.
C8_PreferenceExact ==
    Diffed =>
        /\ \A e \in UnmatchedOriginal :
              EdgeAttribute(e) \in TypesOf(UnmatchedChanged)
                  => KeyOccurrences(eval_one_unmatch_pref.items, e) = 1
        /\ \A i \in DOMAIN eval_one_unmatch_pref.items :
              LET same == {c \in UnmatchedChanged :
                              EdgeAttribute(c) = EdgeAttribute(eval_one_unmatch_pref.items[i].key)}
              IN  /\ eval_one_unmatch_pref.items[i].key \in UnmatchedOriginal
                  /\ Range(eval_one_unmatch_pref.items[i].cands) = same
                  /\ Len(eval_one_unmatch_pref.items[i].cands) = Cardinality(same)

C8_Witness ==
    /\ pc = "match"
    /\ edge_set_one = {<<"s1", "t1", "type">>, <<"s2", "at2", "type">>}
    /\ edge_set_two = {<<"s2", "at2", "type">>, <<"as1", "t1", "type">>,
                       <<"b", "c", "orange">>}
    /\ Len(eval_one_unmatch_pref.items) = 1
    /\ eval_one_unmatch_pref.items[1].cands = << <<"as1", "t1", "type">> >>

\* C9 as stated: the Added and Deleted entries returned by match_changes are
\* the input lists.
C9_Original ==
    Matched =>
        /\ confident_matches.Added = eval_one_unmatch_pref.Added
        /\ confident_matches.Deleted = eval_one_unmatch_pref.Deleted

\* C9 (amended): the Added entry returned by match_changes is the input Added
\* list, the Deleted entry is the input Deleted list followed by the original
\* edges left without any candidate, and no edge of either input list is a
\* key or a value of a confident match or of an unstable pair.
C9_StaticBuckets ==
    Matched =>
        /\ confident_matches.Added = eval_one_unmatch_pref.Added
        /\ Len(confident_matches.Deleted) >= Len(eval_one_unmatch_pref.Deleted)
        /\ SubSeq(confident_matches.Deleted, 1, Len(eval_one_unmatch_pref.Deleted)) = eval_one_unmatch_pref.Deleted
        /\ \A n \in (Len(eval_one_unmatch_pref.Deleted) + 1)..Len(confident_matches.Deleted) :
              /\ confident_matches.Deleted[n] \in KeysOf(eval_one_unmatch_pref.items)
              /\ \A i \in DOMAIN eval_one_unmatch_pref.items :
                    eval_one_unmatch_pref.items[i].key = confident_matches.Deleted[n]
                        => StillAvailable(i) = {}
        /\ \A e \in Range(eval_one_unmatch_pref.Added) \cup Range(eval_one_unmatch_pref.Deleted) :
              /\ e \notin KeysOf(confident_matches.items) \cup KeysOf(unstable_pairs)
              /\ e \notin ValuesOf(confident_matches.items) \cup ValuesOf(unstable_pairs)

C9_Witness ==
    /\ pc = "matched"
    /\ eval_one_unmatch_pref.Added = << <<"b", "c", "orange">> >>
    /\ eval_one_unmatch_pref.Deleted = << <<"song", "tiger", "blue">> >>
    /\ Len(confident_matches.Deleted) = 2
    /\ confident_matches.items # <<>>

\* The place of an instruction in the order of the change list.
Rank(instruction) ==
    CASE instruction.op \in {"create", "decorate"} -> 0
      [] instruction.op = "delete" -> 1
      [] instruction.op = "rename" -> 2
      [] OTHER -> 3

\* C10: in the returned change list every node create and decoration comes
\* before every edge delete, every edge delete before every node rename and
\* every node rename before every edge create or replace.
C10_InstructionOrder ==
    pc = "done" =>
        /\ \A i, j \in DOMAIN change_list :
              Rank(change_list[i]) < Rank(change_list[j]) => i < j
        /\ \A i, j \in DOMAIN change_list :
              (change_list[i].op = "create" /\ change_list[j].op = "decorate") => i < j

C10_Witness ==
    /\ pc = "done"
    /\ \E i, j, k, l \in DOMAIN change_list :
          /\ change_list[i].op = "create"
          /\ change_list[j].op = "decorate"
          /\ change_list[k].op = "delete"
          /\ change_list[l].op = "rename"

\* C11: the change list returned by graph_difference_to_json holds every
\* edge create or replace instruction generated for an edge of the Added
\* list or for a confident match.
C11_EdgesReturned ==
    pc = "done" =>
        \A i \in DOMAIN edge_add : Contains(change_list, edge_add[i])

\* C12: in the returned change list no instruction appears twice, and a node
\* for which a node-create was generated, by however many Added edges and
\* confidently matched edges it is an endpoint of and in whatever order they
\* were processed, has exactly one node-create instruction.
C12_Deduplication ==
    pc = "done" =>
        /\ \A i, j \in DOMAIN change_list :
              change_list[i] = change_list[j] => i = j
        /\ \A n \in VertexNames :
              Contains(create_node, NodeInstruction("create", n))
                  => Occurrences(change_list, NodeInstruction("create", n)) = 1

C12_Witness ==
    /\ pc = "done"
    /\ Occurrences(create_node, NodeInstruction("create", "at2")) = 2
    /\ Occurrences(change_list, NodeInstruction("create", "at2")) = 1
    /\ Len(confident_matches.Added) = 1
    /\ Len(confident_matches.items) = 2
    /\ \A k \in DOMAIN confident_matches.items :
          Target(confident_matches.items[k].value[1]) = "at2"

\* C13: the step of graph_difference_to_json for the Deleted list appends to
\* edge_del one edge-delete instruction per edge of the list, in its order,
\* and changes neither the seen ids nor the created nodes, their decorations,
\* the renamed nodes or the added edges; the returned list holds one
\* edge-delete instruction per deleted edge and no instruction deleting a
\* node.
C13_DeletedOnly ==
    [][ /\ (pc = "json" /\ jpos = 2) =>
            /\ seen_ids' = seen_ids
            /\ create_node' = create_node
            /\ node_dec' = node_dec
            /\ node_renames' = node_renames
            /\ edge_add' = edge_add
            /\ edge_del' = edge_del
                  \o [i \in DOMAIN confident_matches.Deleted |->
                        EdgeToUml(confident_matches.Deleted[i], "delete")]
        /\ pc' = "done" =>
            /\ \A i \in DOMAIN confident_matches.Deleted :
                  Occurrences(change_list',
                      EdgeToUml(confident_matches.Deleted[i], "delete")) = 1
            /\ \A k \in DOMAIN change_list' :
                  change_list'[k].op = "delete" =>
                      /\ change_list'[k].node = ""
                      /\ Contains(confident_matches.Deleted, change_list'[k].edge)
      ]_vars

C13_Witness ==
    /\ pc = "json"
    /\ jpos = 3
    /\ Len(confident_matches.Deleted) = 2
    /\ Len(edge_del) = 2
    /\ create_node # <<>>
    /\ VertexId("tiger") \notin seen_ids
    /\ Contains(confident_matches.Deleted, <<"song", "tiger", "blue">>)

\* An instruction creating or replacing the edge.
IsEdgeAdd(instruction, edge) ==
    instruction.op \in {"create", "replace"} /\ instruction.edge = edge

\* C14: in the returned change list every edge of the Added list has its
\* edge instruction, each of its endpoints whose id was not seen has one
\* node-create instruction and its decoration placed before that edge
\* instruction, and each endpoint whose id was seen from the start has no
\* node-create instruction.
C14_AddedEndpoints ==
    pc = "done" =>
        \A a \in DOMAIN confident_matches.Added :
            LET edge == confident_matches.Added[a]
            IN  /\ \E j \in DOMAIN change_list :
                      /\ IsEdgeAdd(change_list[j], edge)
                      /\ \A n \in {Source(edge), Target(edge)} :
                            VertexId(n) \notin StringIds =>
                                \E i, d \in 1..(j - 1) :
                                    /\ change_list[i] = NodeInstruction("create", n)
                                    /\ change_list[d] = NodeInstruction("decorate", n)
                /\ \A n \in {Source(edge), Target(edge)} :
                      Occurrences(change_list, NodeInstruction("create", n))
                          = IF VertexId(n) \in StringIds THEN 0 ELSE 1

\* The endpoints of the changed edge of a confident match that are renames
\* of the endpoint of the original edge at the same end.
RenamedEndpoints(item) ==
    {n \in {Source(item.value[1])} :
        HasRename(n) /\ OldName(n) = Source(item.key)}
    \cup {n \in {Target(item.value[1])} :
        HasRename(n) /\ OldName(n) = Target(item.key)}

\* C15: for every confident match whose changed edge has a renamed endpoint,
\* the returned change list holds the node-rename instruction of that
\* endpoint exactly once and the edge-replace instruction of the changed
\* edge.
C15_RenameEmitted ==
    pc = "done" =>
        \A k \in DOMAIN confident_matches.items :
            LET item == confident_matches.items[k]
            IN  RenamedEndpoints(item) # {} =>
                    /\ \A n \in RenamedEndpoints(item) :
                          Occurrences(change_list, ChangeNodeToUml(n)) = 1
                    /\ Contains(change_list, EdgeToUml(item.value[1], "replace"))

\* The endpoints of the changed edge of a confident match that are newly
\* created vertices.
NewEndpoints(item) ==
    {n \in {Source(item.value[1]), Target(item.value[1])} : IsNewId(VertexId(n))}

\* C16: for every confident match whose changed edge has a newly created
\* endpoint, the returned change list holds the node-create instruction and
\* the decoration of that endpoint once, and the instruction emitted for the
\* changed edge is an edge create, not an edge replace.
C16_NewEndpoint ==
    pc = "done" =>
        \A k \in DOMAIN confident_matches.items :
            LET item == confident_matches.items[k]
            IN  NewEndpoints(item) # {} =>
                    /\ \A n \in NewEndpoints(item) :
                          /\ Occurrences(change_list, NodeInstruction("create", n)) = 1
                          /\ Occurrences(change_list, NodeInstruction("decorate", n)) = 1
                    /\ Contains(edge_add, EdgeToUml(item.value[1], "create"))
                    /\ ~Contains(edge_add, EdgeToUml(item.value[1], "replace"))

AllInstructions ==
    Range(create_node) \cup Range(node_dec) \cup Range(edge_del)
        \cup Range(edge_add) \cup Range(node_renames) \cup Range(change_list)

\* The changed edges of the change dictionary handed to the classifier.
ClassifiedEdges ==
    Range(confident_matches.Added) \cup ValuesOf(confident_matches.items)

\* C18: no instruction built or returned by graph_difference_to_json is for
\* an original edge reported in unstable_pairs or for one of its tied
\* candidates: every edge instruction is for an edge of the Added list, of
\* the Deleted list or of a confident match, every node instruction for an
\* endpoint of an Added edge or of the changed edge of a confident match,
\* and no unstable original edge or tied candidate is among those edges.
C18_OnlyConfident ==
    pc \in {"json", "done"} =>
        /\ \A u \in DOMAIN unstable_pairs :
              \A e \in {unstable_pairs[u].key} \cup Range(unstable_pairs[u].value) :
                  /\ e \notin ClassifiedEdges \cup Range(confident_matches.Deleted)
                  /\ \A instruction \in AllInstructions : instruction.edge # e
        /\ \A instruction \in AllInstructions :
              IF instruction.edge # NoEdge
              THEN instruction.edge
                      \in ClassifiedEdges \cup Range(confident_matches.Deleted)
              ELSE instruction.node \in VerticesOf(ClassifiedEdges)

C18_Witness ==
    /\ pc = "done"
    /\ Scenario
    /\ Len(unstable_pairs) = 1
    /\ edge_add = << EdgeToUml(<<"s2", "at2", "type">>, "replace") >>
    /\ change_list = << NodeInstruction("create", "at2"),
                        NodeInstruction("decorate", "at2") >>

\* C19: when the comparison of a pair of evaluators is done, whatever pairs
\* were compared before it, its unmatched edges, its preference dictionary,
\* its confident matches and unstable pairs and its change list are those
\* the pair alone gives: the differences of the edge sets of its two
\* evaluators, match_changes of their preference dictionary, and
\* graph_difference_to_json of the confident matches starting with the
\* string ids of the translator as the only seen ids.
C19_Isolation ==
    pc = "done" =>
        /\ pair_index >= 1 =>
              /\ edge_set_one = evaluators[Pair[1]]
              /\ edge_set_two = evaluators[Pair[2]]
        /\ eval_one_unmatched \in ListsOf(NamedDifference(edge_set_one, edge_set_two))
        /\ eval_two_unmatched \in ListsOf(NamedDifference(edge_set_two, edge_set_one))
        /\ \E type_order \in ListsOf(AnceKeysNotInBase(eval_one_unmatched,
                                                      eval_two_unmatched)) :
              eval_one_unmatch_pref
                  = [Added |-> PrefAdded(type_order, eval_two_unmatched),
                     Deleted |-> PrefDeleted(eval_one_unmatched, eval_two_unmatched),
                     items |-> PrefItems(eval_one_unmatched, eval_two_unmatched)]
        /\ <<confident_matches, unstable_pairs>> = match_changes(eval_one_unmatch_pref)
        /\ change_list = graph_difference_to_json(confident_matches)

C19_Witness ==
    /\ pc = "done"
    /\ pair_index = 2
    /\ Len(evaluator_change_dict) = 1
    /\ evaluator_change_dict[1].Changes.Added = << <<"b", "c", "orange">> >>
    /\ Contains(confident_matches.Added, <<"b", "c", "orange">>)
    /\ Contains(change_list, NodeInstruction("create", "b"))

\* C20: every entry of the dictionary of get_pattern_graph_diff is for a pair
\* whose first evaluator, the original on the left side, has no rename sheet
\* and whose second evaluator has one.
C20_OriginalToChange ==
    \A k \in DOMAIN evaluator_change_dict :
        LET key == evaluator_change_dict[k].key
        IN  /\ ~EvaluatorHasRename(evaluators[key[1] + 1])
            /\ EvaluatorHasRename(evaluators[key[2] + 1])

NewNames == {n \in TranslatorNames : uml_id[n] # NoId /\ uml_id[n][1] \in {"uuid", "new"}}

\* C22: get_uml_id returns the stored id of a name that is in the table and
\* leaves the table unchanged; for a name that is not in the table it stores
\* and returns new_<i>, i being the number of names it made an id for
\* before.
C22_GetUmlId ==
    [][ pc = "ids" =>
            IF uml_id[uml_name'] # NoId
            THEN uml_return' = uml_id[uml_name'] /\ uml_id' = uml_id
            ELSE /\ uml_return'[1] = "new"
                 /\ uml_return'[2] = Cardinality(NewNames)
                 /\ uml_id'[uml_name'] = uml_return'
      ]_vars

(***************************************************************************)
(* Evaluator.to_property_di_graph: the property graph is built from the    *)
(* rows of the dataframe, one add per (source, target, edge type), and     *)
(* every edge is then added again with its DiEdge object attached.         *)
(***************************************************************************)
MaxRows == 3

GraphNames == {"Car", "engine"}

GraphTypes == {"owner", "type"}

GraphTriples == GraphNames \X GraphNames \X GraphTypes

EdgeIndex(g, u, v) ==
    {i \in 1..Len(g) : g[i].source = u /\ g[i].target = v}

NewEdgeData(u, v) ==
    [source |-> u, target |-> v, edge_attribute |-> "", diedge |-> NoEdge]

add_edge(g, u, v, key, value) ==
    IF EdgeIndex(g, u, v) = {}
    THEN Append(g, [NewEdgeData(u, v) EXCEPT ![key] = value])
    ELSE LET i == CHOOSE k \in EdgeIndex(g, u, v) : TRUE
         IN [g EXCEPT ![i] = [@ EXCEPT ![key] = value]]

DiEdge(source, target, edge_attribute) == <<source, target, edge_attribute>>

named_edge_set(g) ==
    {g[i].diedge : i \in {k \in 1..Len(g) : g[k].diedge # NoEdge}}

edge_dict(g) ==
    {<<g[i].diedge, i>> : i \in {k \in 1..Len(g) : g[k].diedge # NoEdge}}

InitGraph ==
    /\ pc = "edges"
    /\ df \in UNION {[1..k -> GraphTriples] : k \in 0..MaxRows}
    /\ df_row = 1
    /\ prop_di_graph = <<>>
    /\ uml_id = <<>>
    /\ df_renames = <<>>
    /\ rename_row = 0
    /\ uml_name = ""
    /\ uml_return = <<>>
    /\ evaluators = <<>>
    /\ pair_index = 0
    /\ evaluator_change_dict = <<>>
    /\ edge_set_one = {}
    /\ edge_set_two = {}
    /\ NoDiff
    /\ NoJson
    /\ current = NoEdge
    /\ clone = NoEdge
    /\ match_val = 0

restVars == <<graphVars, diffVars, pools, resultVars, jsonVars, matchVars,
              pairVars, translatorVars>>

\* lines 815-827: the rows of one pattern edge are added with its edge type
AddEdgesFrom ==
    /\ pc = "edges"
    /\ df_row <= Len(df)
    /\ prop_di_graph' = add_edge(prop_di_graph, df[df_row][1], df[df_row][2],
                                 "edge_attribute", df[df_row][3])
    /\ df_row' = df_row + 1
    /\ UNCHANGED <<pc, df, restVars>>

\* line 829: all rows are in the graph; the loop over pdg.edges starts
EdgesAdded ==
    /\ pc = "edges"
    /\ df_row > Len(df)
    /\ pc' = "diedges"
    /\ df_row' = 1
    /\ UNCHANGED <<prop_di_graph, df, restVars>>

AttachDiEdgeAsNewEdge ==
    /\ pc = "diedges"
    /\ df_row <= Len(prop_di_graph)
    /\ LET data == prop_di_graph[df_row]
       IN prop_di_graph' =
              Append(prop_di_graph,
                     [data EXCEPT !.diedge = DiEdge(data.source, data.target,
                                                    data.edge_attribute)])
    /\ df_row' = df_row + 2
    /\ UNCHANGED <<pc, df, restVars>>

\* lines 866-876: the edge is added again with its DiEdge object
AttachDiEdge ==
    /\ pc = "diedges"
    /\ df_row <= Len(prop_di_graph)
    /\ LET data == prop_di_graph[df_row]
       IN prop_di_graph' =
              add_edge(prop_di_graph, data.source, data.target, "diedge",
                       DiEdge(data.source, data.target, data.edge_attribute))
    /\ df_row' = df_row + 1
    /\ UNCHANGED <<pc, df, restVars>>

\* line 879
GraphReturn ==
    /\ pc = "diedges"
    /\ df_row > Len(prop_di_graph)
    /\ pc' = "graph"
    /\ UNCHANGED <<prop_di_graph, df, df_row, restVars>>

NextGraph ==
    \/ AddEdgesFrom
    \/ EdgesAdded
    \/ AttachDiEdge
    \/ GraphReturn

SpecGraph == InitGraph /\ [][NextGraph]_vars

EdgeTriple(data) == <<data.source, data.target, data.edge_attribute>>

\* C23: after any sequence of adds, re-adding an edge with its DiEdge
\* included, no named triple occurs twice among the edges of the graph, the
\* triple-to-edge map has exactly one entry for every triple of the named
\* edge set, each entry's edge has that triple as its own, and the returned
\* graph has a DiEdge on every edge.
C23_AddEdgeIdempotent ==
    LET g == prop_di_graph
    IN /\ \A i, j \in 1..Len(g) :
              EdgeTriple(g[i]) = EdgeTriple(g[j]) => i = j
       /\ \A t \in named_edge_set(g) :
              /\ Cardinality({e \in edge_dict(g) : e[1] = t}) = 1
              /\ \A e \in edge_dict(g) :
                     e[1] = t => EdgeTriple(g[e[2]]) = t
       /\ pc = "graph" =>
              /\ \A i \in 1..Len(g) : g[i].diedge # NoEdge
              /\ Cardinality(named_edge_set(g)) = Len(g)

C23_Witness ==
    /\ pc = "graph"
    /\ df = << <<"Car", "engine", "owner">>, <<"engine", "Car", "type">>,
               <<"Car", "engine", "owner">> >>
    /\ Len(prop_di_graph) = 2
    /\ named_edge_set(prop_di_graph) =
           {<<"Car", "engine", "owner">>, <<"engine", "Car", "type">>}

ComparedKeys(n) ==
    LET pairs == Combinations(Len(evaluators))
        compared == SelectSeq([k \in 1..n |-> k],
                        LAMBDA k : ~(EvaluatorHasRename(evaluators[pairs[k][1]])
                                     /\ EvaluatorHasRename(evaluators[pairs[k][2]])))
    IN  [m \in 1..Len(compared) |->
            <<pairs[compared[m]][1] - 1, pairs[compared[m]][2] - 1>>]

\* What the comparison of two edge sets can return: the result of
\* match_changes for each order the unmatched edges can be enumerated in.
PairResults(one_set, two_set) ==
    UNION {
        {match_changes([Added |-> PrefAdded(type_order, two),
                        Deleted |-> PrefDeleted(one, two),
                        items |-> PrefItems(one, two)]) :
            type_order \in ListsOf(AnceKeysNotInBase(one, two))} :
        <<one, two>> \in ListsOf(NamedDifference(one_set, two_set))
                             \X ListsOf(NamedDifference(two_set, one_set))}

RECURSIVE PassPrefix(_, _)
PassPrefix(st, n) ==
    IF n = 0 THEN st
    ELSE LET s == PassPrefix(st, n - 1)
             best == BestCandidates(s[n].key, s[n].pool)
         IN  IF s[n].got = <<>> /\ Cardinality(best) = 1
             THEN Accept(s, n, CHOOSE c \in best : TRUE)
             ELSE s

OneToOne(st) ==
    \A i, j \in DOMAIN st :
        (i # j /\ st[i].got # <<>>) =>
            /\ st[j].got # st[i].got
            /\ st[i].got[1] \notin Range(st[j].pool)

\* C26: at every point of match_changes, between two proposers of a pass
\* too, an accepted changed edge is the match of one original edge only and
\* is in the pool of no other original edge; in the result no changed edge
\* is the confident match of two original edges, and no confident match is
\* listed in an unstable pair.
C26_OneToOne ==
    /\ OneToOne(pools)
    /\ pc = "match" => \A n \in 0..Len(pools) : OneToOne(PassPrefix(pools, n))
    /\ pc \in {"matched", "json", "done"} =>
          /\ \A i, j \in DOMAIN confident_matches.items :
                confident_matches.items[i].value = confident_matches.items[j].value
                    => i = j
          /\ \A i \in DOMAIN confident_matches.items, k \in DOMAIN unstable_pairs :
                confident_matches.items[i].value[1] \notin Range(unstable_pairs[k].value)

\* Two original edges had the same two or more candidates, and each got
\* one of them.
C26_Witness ==
    /\ pc = "matched"
    /\ Len(confident_matches.items) >= 2
    /\ \E i, j \in DOMAIN pools :
          /\ i # j
          /\ pools[i].got # <<>>
          /\ pools[j].got # <<>>
          /\ eval_one_unmatch_pref.items[i].cands = eval_one_unmatch_pref.items[j].cands
          /\ Len(eval_one_unmatch_pref.items[i].cands) >= 2

\* The original edges whose pool has no candidate left.
EmptyPools ==
    {pools[i].key : i \in {k \in DOMAIN pools :
                              pools[k].got = <<>> /\ pools[k].pool = <<>>}}

\* C27: an original edge whose candidate pool is empty when matching stops
\* is once in the returned Deleted list and no key of confident_matches or
\* of unstable_pairs; every value of confident_matches holds a changed edge,
\* so value[0] exists for every key graph_difference_to_json reads, and the
\* edge gets its delete instruction; an edge given with an empty candidate
\* list is returned as Deleted too.
C27_EmptyPool ==
    /\ Matched =>
          /\ \A e \in EmptyPools :
                /\ Occurrences(confident_matches.Deleted, e) = 1
                /\ e \notin KeysOf(confident_matches.items)
                /\ e \notin KeysOf(unstable_pairs)
          /\ \A i \in DOMAIN confident_matches.items :
                Len(confident_matches.items[i].value) = 1
    /\ (pc = "json" /\ jpos > 2) \/ pc = "done" =>
          \A e \in EmptyPools : Contains(edge_del, EdgeToUml(e, "delete"))
    /\ \A e \in edge_set_one :
          match_changes([Added |-> <<>>, Deleted |-> <<>>,
                         items |-> <<[key |-> e, cands |-> <<>>]>>])
              = << [Added |-> <<>>, Deleted |-> <<e>>, items |-> <<>>], <<>> >>

\* Two original edges of one type competed for the single changed edge of
\* that type: one got it, the other is Deleted and has its instruction.
C27_Witness ==
    /\ pc = "done"
    /\ Cardinality(EmptyPools) = 1
    /\ Len(confident_matches.items) = 1
    /\ Len(eval_one_unmatch_pref.items) = 2
    /\ eval_one_unmatch_pref.Deleted = <<>>
    /\ Len(confident_matches.Deleted) = 1
    /\ Len(edge_del) = 1

(***************************************************************************)
(* The comparison of one pair of graphs as the single thread runs it: a    *)
(* step that can be taken is taken.                                        *)
(***************************************************************************)
MaxLiveOrig == 2
MaxLiveChanged == 3

InitLive ==
    /\ pc = "start"
    /\ edge_set_one \in Graphs(MaxLiveOrig)
    /\ edge_set_two \in Graphs(MaxLiveChanged)
    /\ NoDiff
    /\ NoJson
    /\ current = NoEdge
    /\ clone = NoEdge
    /\ match_val = 0
    /\ NoPairs

SpecLive == InitLive /\ [][Next]_vars /\ WF_vars(Next)

\* The changed edges of a type that no original edge has accepted yet: the
\* pool of acceptors of that type.
RemainingCandidates(st, type) ==
    {c \in UNION {Range(eval_one_unmatch_pref.items[i].cands) :
                     i \in DOMAIN eval_one_unmatch_pref.items} :
        /\ EdgeAttribute(c) = type
        /\ \A i \in DOMAIN st : st[i].got # <<c>>}

PassShrinksPool ==
    (pc = "match" /\ pools' # pools) =>
        /\ \A i \in DOMAIN pools : Range(pools'[i].pool) \subseteq Range(pools[i].pool)
        /\ \A type \in {EdgeAttribute(pools[i].key) : i \in DOMAIN pools} :
              RemainingCandidates(pools', type) \subseteq RemainingCandidates(pools, type)
        /\ \E type \in {EdgeAttribute(pools[i].key) : i \in DOMAIN pools} :
              RemainingCandidates(pools', type) # RemainingCandidates(pools, type)

\* C28: every pass of match_changes that is not the last one takes a changed
\* edge out of the pool of still available candidates of some edge type, no
\* pool ever grows, the loop over the passes comes to its return, and the
\* comparison of the pair of graphs runs to completion.
C28_Termination ==
    /\ [][PassShrinksPool]_vars
    /\ (pc = "match") ~> (pc = "matched")
    /\ <>(pc = "done")

\* The loop made two passes that accepted a candidate before it returned.
C28_Witness ==
    /\ pc = "matched"
    /\ \E i, j \in DOMAIN pools :
          /\ pools[i].got # <<>>
          /\ pools[j].got # <<>>
          /\ pools[i].got[1] \in BestCandidates(pools[j].key, eval_one_unmatch_pref.items[j].cands)
          /\ Cardinality(BestCandidates(pools[j].key, eval_one_unmatch_pref.items[j].cands)) >= 2

\* The node instructions a step appends to the renames and to the creates.
AppendedNodes ==
    {node_renames'[i].node : i \in (Len(node_renames) + 1)..Len(node_renames')}
    \cup {create_node'[i].node : i \in (Len(create_node) + 1)..Len(create_node')}

SeenIdGating ==
    /\ (pc = "matched" /\ pc' = "json") => seen_ids' = StringIds
    /\ (pc = "json" /\ pc' = "json") => seen_ids \subseteq seen_ids'
    /\ (pc = "json" /\ jpos >= 3 /\ jpos' = jpos + 1) =>
          LET edge == confident_matches.items[jpos - 2].value[1]
          IN  \A n \in AppendedNodes :
                  /\ n \in {Source(edge), Target(edge)}
                  /\ VertexId(n) \notin seen_ids
                  /\ VertexId(n) \in seen_ids'
                  /\ VertexId(n) \notin StringIds

\* C29: seen_ids starts as the string ids of the translator and only grows
\* while graph_difference_to_json runs; a node-rename or node-create
\* instruction made for a confident match is for an endpoint of its changed
\* edge whose id was not in seen_ids when the match was processed and is in
\* it afterwards, so never for an endpoint whose id is a string id of the
\* translator.
C29_SeenIdGating == [][SeenIdGating]_vars

\* A matched changed edge from as1, the new name of s1 that keeps its string
\* id, to t1, and one with the new vertex at2: only at2 got an instruction.
C29_Witness ==
    /\ pc = "done"
    /\ HasRename("as1")
    /\ \E k \in DOMAIN confident_matches.items :
          confident_matches.items[k].value = << <<"as1", "t1", "type">> >>
    /\ \E k \in DOMAIN confident_matches.items :
          confident_matches.items[k].value = << <<"s2", "at2", "type">> >>
    /\ node_renames = <<>>
    /\ create_node = <<NodeInstruction("create", "at2")>>

\* The sets a result of the comparison is made of: the Added edges, the
\* Deleted edges, the confident matches and the unstable pairs.
ResultSets(changes, unstable) ==
    [Added |-> Range(changes.Added),
     Deleted |-> Range(changes.Deleted),
     Confident |-> {<<changes.items[i].key, Range(changes.items[i].value)>> :
                       i \in DOMAIN changes.items},
     Unstable |-> {<<unstable[i].key, Range(unstable[i].value)>> :
                       i \in DOMAIN unstable}]

\* C30: whatever order the unmatched original edges, the unmatched changed
\* edges and the edge types without an original edge are enumerated in, the
\* comparison of the two graphs has the same Added set, the same Deleted set,
\* the same set of confident matches and the same set of unstable pairs.
C30_OrderIndependent ==
    pc = "matched" =>
        \A r \in PairResults(edge_set_one, edge_set_two) :
            ResultSets(r[1], r[2]) = ResultSets(confident_matches, unstable_pairs)

====
